---- MODULE Spec2Model ----
\* Face-recognition attendance backend (FaceService over the MongoDB store):
\* registration, augmentation, soft delete, verification and attendance marking.
\*
\* Floating-point distances are carried in fixed point: a distance d of the
\* program is the integer d * Scale.  All embedding vectors used below have
\* integer norms whose products divide Scale * dot, so the fixed-point value
\* is exact.  The file paths kept in the documents (image_paths of a student,
\* image_path of an attendance record) and created_at are not carried: no
\* operation modelled here reads them back.  Embeddings are non-degenerate
\* (non-zero norm) except in SpecDegenerate, where the extractor also delivers
\* the zero vector.
\*
\* temp_files tells which uploads have a temporary copy that is still on disk
\* although the handler that created it has returned or raised; the copies
\* themselves, whose names are random, are not told apart.
EXTENDS Integers, Sequences, FiniteSets, TLC

VARIABLES students, attendance, last, calls, temp_files

vars == <<students, attendance, last, calls, temp_files>>

-----------------------------------------------------------------------------
\* Bounds of the model

MaxImages == 4
MaxAttendance == 2
MaxEmbeddings == 5
MaxCalls == 2
MaxStudents == 6

-----------------------------------------------------------------------------
\* Program constants

Scale == 100
confidence_threshold == 60
MinEmbeddings == 3
TopN == 5

-----------------------------------------------------------------------------
\* Embedding vectors and images

Dim == 1..4

Va == <<2, 4, 2, 1>>
Vb == <<3, 4, 0, 0>>
Vc == <<0, 0, 3, 4>>

\* a degenerate embedding
Vz == <<0, 0, 0, 0>>

P1 == <<1, 0, 0, 0>>
P2 == <<0, 1, 0, 0>>
P3 == <<0, 0, 1, 0>>
P4 == <<0, 0, 0, 1>>

\* Images whose face DeepFace can embed, and images on which it raises.
FaceImages == {"faceA.jpg", "faceB.jpg", "faceC.jpg"}
BadImages == {"noface.jpg"}
ProbeImages == {"probe1.jpg", "probe2.jpg", "probe3.jpg", "probe4.jpg"}
Images == FaceImages \cup BadImages

Ids == {"s1", "s2"}
NameOf(sid) == IF sid = "s1" THEN "alice" ELSE "bob"
Timestamps == {<<"2024-01-01", "T", "09:00:00">>, <<"2024-01-02", "T", "08:30:00">>}

NoResult == [op |-> "none"]

\* Requests that are handled at the same time, and a request not yet received
Calls == 1..MaxCalls
IdleCall == [pc |-> "idle"]

-----------------------------------------------------------------------------
\* FaceService.generate_embedding: the embedding of the image, or the raised
\* exception's text.
generate_embedding(image_path) ==
    CASE image_path = "faceA.jpg"  -> [ok |-> TRUE, embedding |-> Va]
      [] image_path = "faceB.jpg"  -> [ok |-> TRUE, embedding |-> Vb]
      [] image_path = "faceC.jpg"  -> [ok |-> TRUE, embedding |-> Vc]
      [] image_path = "probe1.jpg" -> [ok |-> TRUE, embedding |-> P1]
      [] image_path = "probe2.jpg" -> [ok |-> TRUE, embedding |-> P2]
      [] image_path = "probe3.jpg" -> [ok |-> TRUE, embedding |-> P3]
      [] image_path = "probe4.jpg" -> [ok |-> TRUE, embedding |-> P4]
      [] image_path = "blank.jpg"  -> [ok |-> TRUE, embedding |-> Vz]
      [] image_path = "noface.jpg" -> [ok |-> FALSE, error |-> "Face could not be detected"]
      [] OTHER -> [ok |-> FALSE, error |-> "Image not found"]

-----------------------------------------------------------------------------
\* Floating-point values: a finite number (fixed point), nan, +inf or -inf.

Num(v) == [kind |-> "num", v |-> v]
NaN == [kind |-> "nan", v |-> 0]
Inf == [kind |-> "inf", v |-> 0]
NegInf == [kind |-> "ninf", v |-> 0]

\* Python's x < y on floats.
PyLess(x, y) ==
    IF x.kind = "nan" \/ y.kind = "nan" THEN FALSE
    ELSE IF x.kind = "inf" \/ y.kind = "ninf" THEN FALSE
    ELSE IF x.kind = "ninf" \/ y.kind = "inf" THEN TRUE
    ELSE x.v < y.v

\* Python's x <= y on floats.
PyLessEq(x, y) ==
    IF x.kind = "nan" \/ y.kind = "nan" THEN FALSE
    ELSE IF x.kind = y.kind /\ x.kind # "num" THEN TRUE
    ELSE IF x.kind = "inf" \/ y.kind = "ninf" THEN FALSE
    ELSE IF x.kind = "ninf" \/ y.kind = "inf" THEN TRUE
    ELSE x.v <= y.v

\* 1 - x on floats.
OneMinus(x) ==
    CASE x.kind = "num"  -> Num(Scale - x.v)
      [] x.kind = "nan"  -> NaN
      [] x.kind = "inf"  -> NegInf
      [] x.kind = "ninf" -> Inf

RECURSIVE SumSeq(_)
SumSeq(s) == IF s = <<>> THEN 0 ELSE Head(s) + SumSeq(Tail(s))

Dot(a, b) == SumSeq([i \in Dim |-> a[i] * b[i]])

ISqrt(n) == CHOOSE r \in 0..n : r * r <= n /\ (r + 1) * (r + 1) > n

\* np.linalg.norm
Norm(a) == ISqrt(Dot(a, a))

\* FaceService.cosine_distance: 1 - dot / (norm * norm); numpy yields nan for 0/0.
cosine_distance(emb1, emb2) ==
    LET den == Norm(emb1) * Norm(emb2) IN
    IF den = 0 THEN NaN
    ELSE OneMinus(Num((Scale * Dot(emb1, emb2)) \div den))

\* Python's builtin min over a non-empty list: the first element, replaced by a
\* later one only when that one compares strictly smaller.
RECURSIVE PyMinFrom(_, _)
PyMinFrom(cur, rest) ==
    IF rest = <<>> THEN cur
    ELSE PyMinFrom(IF PyLess(Head(rest), cur) THEN Head(rest) ELSE cur, Tail(rest))

PyMin(s) == PyMinFrom(Head(s), Tail(s))

-----------------------------------------------------------------------------
\* MongoDB store

\* Binary(pickle.dumps(emb)) and pickle.loads
Serialize(emb) == [blob |-> emb]
Deserialize(bin) == bin.blob

SerializeAll(embs) == [i \in 1..Len(embs) |-> Serialize(embs[i])]
DeserializeAll(bins) == [i \in 1..Len(bins) |-> Deserialize(bins[i])]

\* students.find_one({"student_id": student_id}): position of the first match, 0 if none
FindOne(coll, student_id) ==
    IF \E i \in 1..Len(coll) : coll[i].student_id = student_id
    THEN CHOOSE i \in 1..Len(coll) :
            /\ coll[i].student_id = student_id
            /\ \A j \in 1..(i - 1) : coll[j].student_id # student_id
    ELSE 0

\* MongoDB._deserialize_student
deserialize_student(doc) ==
    [id |-> doc.id,
     name |-> doc.name,
     student_id |-> doc.student_id,
     embeddings |-> DeserializeAll(doc.embeddings),
     image_count |-> doc.image_count,
     is_active |-> doc.is_active]

\* a variant of the lookup that skips soft-deleted documents
get_active_student_by_id(coll, student_id) ==
    LET i == FindOne(coll, student_id) IN
    IF i = 0 \/ ~coll[i].is_active THEN [found |-> FALSE]
    ELSE [found |-> TRUE, student |-> coll[i]]

\* MongoDB.get_student_by_id: the deserialized document, or None
get_student_by_id(coll, student_id) ==
    LET i == FindOne(coll, student_id) IN
    IF i = 0 THEN [found |-> FALSE] ELSE [found |-> TRUE, student |-> deserialize_student(coll[i])]

\* MongoDB.add_student: the collection after insert_one
add_student(coll, name, student_id, embeddings) ==
    Append(coll,
           [id |-> Len(coll) + 1,
            name |-> name,
            student_id |-> student_id,
            embeddings |-> SerializeAll(embeddings),
            image_count |-> Len(embeddings),
            is_active |-> TRUE])

\* a filter that lets soft-deleted documents through
IsStored(doc) == TRUE

IsActive(doc) == doc.is_active

\* a variant that finds with an empty filter
get_all_embeddings_unfiltered(coll) ==
    [i \in 1..Len(coll) |->
        [student_id |-> coll[i].student_id,
         name |-> coll[i].name,
         embeddings |-> deserialize_student(coll[i]).embeddings]]

\* MongoDB.get_all_students: the active students, deserialized
get_all_students(coll) ==
    LET act == SelectSeq(coll, IsActive) IN
    [i \in 1..Len(act) |-> deserialize_student(act[i])]

\* MongoDB.get_all_embeddings: the active students, in natural order
get_all_embeddings(coll) ==
    LET act == SelectSeq(coll, IsActive) IN
    [i \in 1..Len(act) |->
        [student_id |-> act[i].student_id,
         name |-> act[i].name,
         embeddings |-> deserialize_student(act[i]).embeddings]]

\* a variant that removes the document (delete_one)
delete_student_physical(coll, student_id) ==
    LET i == FindOne(coll, student_id) IN
    IF i = 0 THEN coll
    ELSE SubSeq(coll, 1, i - 1) \o SubSeq(coll, i + 1, Len(coll))

\* MongoDB.delete_student: update_one sets is_active False on the first match
delete_student_coll(coll, student_id) ==
    LET i == FindOne(coll, student_id) IN
    IF i = 0 THEN coll ELSE [coll EXCEPT ![i].is_active = FALSE]

\* modified_count > 0 of that update
delete_student_modified(coll, student_id) ==
    LET i == FindOne(coll, student_id) IN
    i # 0 /\ coll[i].is_active

\* check_in_time.split('T')[0]: the part of the timestamp before the first 'T'
RECURSIVE SplitT(_)
SplitT(check_in_time) ==
    IF check_in_time = <<>> \/ Head(check_in_time) = "T" THEN <<>>
    ELSE <<Head(check_in_time)>> \o SplitT(Tail(check_in_time))

None == <<"None">>

\* MongoDB.record_attendance: the attendance collection after insert_one
record_attendance(coll, student_id, check_in_time) ==
    Append(coll,
           [id |-> Len(coll) + 1,
            student_id |-> student_id,
            check_in |-> check_in_time,
            date |-> IF check_in_time = None \/ check_in_time = <<>>
                     THEN None ELSE SplitT(check_in_time),
            verified |-> TRUE])

\* a variant that finds with an empty filter
get_attendance_by_date_unfiltered(coll, date) ==
    [k \in 1..Len(coll) |->
        [id |-> coll[k].id, student_id |-> coll[k].student_id, check_in |-> coll[k].check_in]]

HasDate(coll, date) == [k \in 1..Len(coll) |-> coll[k].date = date]

\* attendance.find({"date": date}): the positions that match, in natural order
RECURSIVE FindByDate(_, _, _)
FindByDate(coll, date, k) ==
    IF k > Len(coll) THEN <<>>
    ELSE (IF HasDate(coll, date)[k] THEN <<k>> ELSE <<>>) \o FindByDate(coll, date, k + 1)

\* MongoDB.get_attendance_by_date: the matching records, without their date
get_attendance_by_date(coll, date) ==
    LET found == FindByDate(coll, date, 1) IN
    [m \in 1..Len(found) |->
        [id |-> coll[found[m]].id,
         student_id |-> coll[found[m]].student_id,
         check_in |-> coll[found[m]].check_in]]

\* a variant that combines the lists the other way round
update_student_embeddings_prepend(coll, student_id, new_embeddings) ==
    LET i == FindOne(coll, student_id) IN
    IF i = 0 THEN coll
    ELSE LET all_embeddings == new_embeddings \o DeserializeAll(coll[i].embeddings)
         IN [coll EXCEPT ![i].embeddings = SerializeAll(all_embeddings),
                         ![i].image_count = Len(all_embeddings)]

\* a variant that stores the new embeddings in place of the old ones
update_student_embeddings_replace(coll, student_id, new_embeddings) ==
    LET i == FindOne(coll, student_id) IN
    IF i = 0 THEN coll
    ELSE [coll EXCEPT ![i].embeddings = SerializeAll(new_embeddings),
                      ![i].image_count = Len(new_embeddings)]

\* a variant whose update also sets the active flag
update_student_embeddings_reactivating(coll, student_id, new_embeddings) ==
    LET i == FindOne(coll, student_id) IN
    IF i = 0 THEN coll
    ELSE LET all_embeddings == DeserializeAll(coll[i].embeddings) \o new_embeddings
         IN [coll EXCEPT ![i].embeddings = SerializeAll(all_embeddings),
                         ![i].image_count = Len(all_embeddings),
                         ![i].is_active = TRUE]

\* MongoDB.update_student_embeddings: the collection after update_one
update_student_embeddings(coll, student_id, new_embeddings) ==
    LET i == FindOne(coll, student_id) IN
    IF i = 0 THEN coll
    ELSE LET current_embeddings == DeserializeAll(coll[i].embeddings)
             all_embeddings == current_embeddings \o new_embeddings
         IN [coll EXCEPT ![i].embeddings = SerializeAll(all_embeddings),
                         ![i].image_count = Len(all_embeddings)]

\* a variant that answers with the acknowledgement of the update instead
update_student_embeddings_acknowledged(coll, student_id, new_embeddings) == TRUE

\* its return value: False when the student is missing, else modified_count > 0
update_student_embeddings_ok(coll, student_id, new_embeddings) ==
    /\ FindOne(coll, student_id) # 0
    /\ update_student_embeddings(coll, student_id, new_embeddings) # coll

-----------------------------------------------------------------------------
\* FaceService.verify_face

NoneMatch == [is_none |-> TRUE, student_id |-> "", name |-> "", distance |-> Inf]

MatchOf(student, distance) ==
    [is_none |-> FALSE, student_id |-> student.student_id, name |-> student.name,
     distance |-> distance]

\* a variant that keeps the distance to the first stored embedding
first_student_distance(input_embedding, student) ==
    cosine_distance(input_embedding, student.embeddings[1])

\* the inner loop and min(): the aggregate distance of one student
min_student_distance(input_embedding, student) ==
    PyMin([k \in 1..Len(student.embeddings) |->
              cosine_distance(input_embedding, student.embeddings[k])])

\* the update test of the running best: the or-equal variant lets a later tie win
ImprovesOrTies(d, best_distance) == PyLessEq(d, best_distance)

\* min_student_distance < best_distance
Improves(d, best_distance) == PyLess(d, best_distance)

\* the loop over all_students, from position i on
RECURSIVE VerifyLoop(_, _, _, _)
VerifyLoop(input_embedding, all_students, i, acc) ==
    IF i > Len(all_students) THEN acc
    ELSE LET student == all_students[i]
             d == min_student_distance(input_embedding, student)
             improves == Improves(d, acc.best_distance)
         IN VerifyLoop(input_embedding, all_students, i + 1,
                [best_match |-> IF improves THEN MatchOf(student, d) ELSE acc.best_match,
                 best_distance |-> IF improves THEN d ELSE acc.best_distance,
                 all_distances |-> Append(acc.all_distances, MatchOf(student, d))])

\* an insertion that puts x before the entries of equal distance
RECURSIVE InsertSortedUnstable(_, _)
InsertSortedUnstable(s, x) ==
    IF s = <<>> THEN <<x>>
    ELSE IF PyLessEq(x.distance, Head(s).distance) THEN <<x>> \o s
    ELSE <<Head(s)>> \o InsertSortedUnstable(Tail(s), x)

\* sorted(list, key=distance): stable insertion of x into a sorted list
RECURSIVE InsertSorted(_, _)
InsertSorted(s, x) ==
    IF s = <<>> THEN <<x>>
    ELSE IF PyLess(x.distance, Head(s).distance) THEN <<x>> \o s
    ELSE <<Head(s)>> \o InsertSorted(Tail(s), x)

RECURSIVE SortedByDistance(_)
SortedByDistance(s) ==
    IF s = <<>> THEN <<>>
    ELSE InsertSorted(SortedByDistance(SubSeq(s, 1, Len(s) - 1)), s[Len(s)])

\* [:5]
Top(s) == SubSeq(s, 1, IF Len(s) < TopN THEN Len(s) ELSE TopN)

\* a variant with an exclusive boundary
MeetsThresholdStrict(best_match, best_distance) ==
    ~best_match.is_none /\ PyLess(best_distance, Num(confidence_threshold))

\* the threshold test of the decision
MeetsThreshold(best_match, best_distance) ==
    ~best_match.is_none /\ PyLessEq(best_distance, Num(confidence_threshold))

\* a variant that answers an exception like a probe without a match
VerifyFailureAsNoMatch(error) ==
    [success |-> TRUE, matched |-> FALSE, error |-> "",
     student |-> NoneMatch, best_match |-> NoneMatch,
     confidence |-> NaN, distance |-> NaN, all_matches |-> <<>>]

VerifyFailure(error) ==
    [success |-> FALSE, matched |-> FALSE, error |-> error,
     student |-> NoneMatch, best_match |-> NoneMatch,
     confidence |-> NaN, distance |-> NaN, all_matches |-> <<>>]

\* a variant that reports the nearest identity only when it met the threshold
verify_face_undiagnosed(coll, image_path) ==
    LET gen == generate_embedding(image_path)
        all_students == get_all_embeddings(coll)
        r == VerifyLoop(gen.embedding, all_students, 1,
                        [best_match |-> NoneMatch, best_distance |-> Inf,
                         all_distances |-> <<>>])
        matched == MeetsThreshold(r.best_match, r.best_distance)
    IN
    IF ~gen.ok THEN VerifyFailure(gen.error)
    ELSE IF all_students = <<>> THEN
        [success |-> TRUE, matched |-> FALSE,
         error |-> "No students registered in the system",
         student |-> NoneMatch, best_match |-> NoneMatch,
         confidence |-> NaN, distance |-> NaN, all_matches |-> <<>>]
    ELSE
        [success |-> TRUE, matched |-> matched, error |-> "",
         student |-> IF matched THEN r.best_match ELSE NoneMatch,
         best_match |-> NoneMatch,
         confidence |-> IF matched THEN OneMinus(r.best_distance) ELSE NaN,
         distance |-> IF matched THEN r.best_distance ELSE NaN,
         all_matches |-> Top(SortedByDistance(r.all_distances))]

\* the result dictionary of a verification
verify_face(coll, image_path) ==
    LET gen == generate_embedding(image_path)
        all_students == get_all_embeddings(coll)
    IN
    IF ~gen.ok THEN VerifyFailure(gen.error)
    ELSE IF all_students = <<>> THEN
        [success |-> TRUE, matched |-> FALSE,
         error |-> "No students registered in the system",
         student |-> NoneMatch, best_match |-> NoneMatch,
         confidence |-> NaN, distance |-> NaN, all_matches |-> <<>>]
    ELSE IF \E i \in 1..Len(all_students) : all_students[i].embeddings = <<>> THEN
        VerifyFailure("min() arg is an empty sequence")
    ELSE
        LET r == VerifyLoop(gen.embedding, all_students, 1,
                            [best_match |-> NoneMatch, best_distance |-> Inf,
                             all_distances |-> <<>>])
            confidence == OneMinus(r.best_distance)
        IN
        IF MeetsThreshold(r.best_match, r.best_distance) THEN
            [success |-> TRUE, matched |-> TRUE, error |-> "",
             student |-> r.best_match, best_match |-> NoneMatch,
             confidence |-> confidence, distance |-> r.best_distance,
             all_matches |-> Top(SortedByDistance(r.all_distances))]
        ELSE
            [success |-> TRUE, matched |-> FALSE, error |-> "",
             student |-> NoneMatch, best_match |-> r.best_match,
             confidence |-> confidence, distance |-> r.best_distance,
             all_matches |-> Top(SortedByDistance(r.all_distances))]

-----------------------------------------------------------------------------
\* FaceService.register_student

\* a variant of the loop that gives up at the first image that fails
RECURSIVE ExtractUntilFailure(_, _, _)
ExtractUntilFailure(image_paths, i, acc) ==
    IF i > Len(image_paths) THEN acc
    ELSE LET gen == generate_embedding(image_paths[i]) IN
         IF gen.ok
         THEN ExtractUntilFailure(image_paths, i + 1,
                  [acc EXCEPT !.successful_embeddings = Append(@, gen.embedding)])
         ELSE [acc EXCEPT !.failed_images =
                        Append(@, [path |-> image_paths[i], error |-> gen.error])]

\* the per-image loop: every image is tried once, in order
RECURSIVE ExtractAll(_, _, _)
ExtractAll(image_paths, i, acc) ==
    IF i > Len(image_paths) THEN acc
    ELSE LET gen == generate_embedding(image_paths[i]) IN
         ExtractAll(image_paths, i + 1,
            IF gen.ok
            THEN [acc EXCEPT !.successful_embeddings = Append(@, gen.embedding)]
            ELSE [acc EXCEPT !.failed_images =
                        Append(@, [path |-> image_paths[i], error |-> gen.error])])

Extracted(image_paths) ==
    ExtractAll(image_paths, 1, [successful_embeddings |-> <<>>, failed_images |-> <<>>])

\* variants of the gate: one embedding too few accepted, exactly three refused
EnoughEmbeddingsLoose(successful_embeddings) == Len(successful_embeddings) >= MinEmbeddings - 1
EnoughEmbeddingsStrict(successful_embeddings) == Len(successful_embeddings) > MinEmbeddings

\* the minimum-count gate
EnoughEmbeddings(successful_embeddings) == Len(successful_embeddings) >= MinEmbeddings

RegisterFailure(error, failed_images) ==
    [success |-> FALSE, error |-> error, student_id |-> "", name |-> "", db_id |-> 0,
     total_images |-> 0, successful_embeddings |-> 0, failed_images |-> failed_images]

\* the result dictionary and the students collection after the call
register_student(coll, name, student_id, image_paths) ==
    LET ex == Extracted(image_paths) IN
    IF name = "" \/ student_id = "" THEN
        [result |-> RegisterFailure("Name and student ID are required", <<>>), coll |-> coll]
    ELSE IF image_paths = <<>> THEN
        [result |-> RegisterFailure("At least one image is required", <<>>), coll |-> coll]
    ELSE IF get_student_by_id(coll, student_id).found THEN
        [result |-> RegisterFailure("Student ID already exists", <<>>), coll |-> coll]
    ELSE IF ~EnoughEmbeddings(ex.successful_embeddings) THEN
        [result |-> [RegisterFailure("Not enough images processed successfully. Need at least 3.",
                                     ex.failed_images)
                        EXCEPT !.successful_embeddings = Len(ex.successful_embeddings)],
         coll |-> coll]
    ELSE
        [result |-> [success |-> TRUE, error |-> "", student_id |-> student_id, name |-> name,
                     db_id |-> Len(coll) + 1,
                     total_images |-> Len(image_paths),
                     successful_embeddings |-> Len(ex.successful_embeddings),
                     failed_images |-> ex.failed_images],
         coll |-> add_student(coll, name, student_id, ex.successful_embeddings)]

-----------------------------------------------------------------------------
\* FaceService.mark_attendance

\* a variant that records the nearest identity whether or not it met the threshold
mark_attendance_nearest(coll, att, image_path, timestamp) ==
    LET v == verify_face(coll, image_path)
        who == IF v.matched THEN v.student ELSE v.best_match
    IN
    IF ~v.success \/ who.is_none THEN
        [result |-> [success |-> FALSE, attendance_marked |-> FALSE, attendance_id |-> 0,
                     student_id |-> "", best_match |-> NoneMatch, error |-> v.error],
         att |-> att]
    ELSE
        [result |-> [success |-> TRUE, attendance_marked |-> TRUE,
                     attendance_id |-> Len(att) + 1,
                     student_id |-> who.student_id,
                     best_match |-> NoneMatch, error |-> ""],
         att |-> record_attendance(att, who.student_id, timestamp)]

\* the result dictionary and the attendance collection after the call;
\* a failed verification is returned as it is (no attendance_marked key)
mark_attendance(coll, att, image_path, timestamp) ==
    LET v == verify_face(coll, image_path) IN
    IF ~v.success THEN
        [result |-> [success |-> FALSE, attendance_marked |-> FALSE, attendance_id |-> 0,
                     student_id |-> "", best_match |-> NoneMatch, error |-> v.error],
         att |-> att]
    ELSE IF v.matched THEN
        [result |-> [success |-> TRUE, attendance_marked |-> TRUE,
                     attendance_id |-> Len(att) + 1,
                     student_id |-> v.student.student_id,
                     best_match |-> NoneMatch, error |-> ""],
         att |-> record_attendance(att, v.student.student_id, timestamp)]
    ELSE
        [result |-> [success |-> TRUE, attendance_marked |-> FALSE, attendance_id |-> 0,
                     student_id |-> "", best_match |-> v.best_match, error |-> ""],
         att |-> att]

\* a variant that answers a store error like a probe without a match
mark_attendance_store_error_swallowed(coll, att, image_path, timestamp) ==
    [result |-> [success |-> TRUE, attendance_marked |-> FALSE, attendance_id |-> 0,
                 student_id |-> "", best_match |-> verify_face(coll, image_path).student,
                 error |-> ""],
     att |-> att]

\* the same call when the store's insert_one raises: the except clause answers
mark_attendance_store_error(coll, att, image_path, timestamp) ==
    [result |-> [success |-> FALSE, attendance_marked |-> FALSE, attendance_id |-> 0,
                 student_id |-> "", best_match |-> NoneMatch, error |-> "store failure"],
     att |-> att]

-----------------------------------------------------------------------------
\* app.improve_recognition

\* the HTTP outcome and the students collection after the call
improve_recognition(coll, student_id, image_paths) ==
    LET ex == Extracted(image_paths)
        new_embeddings == ex.successful_embeddings
    IN
    IF new_embeddings # <<>> THEN
        IF update_student_embeddings_ok(coll, student_id, new_embeddings) THEN
            [result |-> [status |-> 200, success |-> TRUE,
                         added_embeddings |-> Len(new_embeddings),
                         failed_images |-> ex.failed_images, detail |-> ""],
             coll |-> update_student_embeddings(coll, student_id, new_embeddings)]
        ELSE
            [result |-> [status |-> 404, success |-> FALSE, added_embeddings |-> 0,
                         failed_images |-> <<>>, detail |-> "Student not found"],
             coll |-> update_student_embeddings(coll, student_id, new_embeddings)]
    ELSE
        [result |-> [status |-> 400, success |-> FALSE, added_embeddings |-> 0,
                     failed_images |-> <<>>,
                     detail |-> "No valid embeddings generated from provided images"],
         coll |-> coll]

-----------------------------------------------------------------------------
\* FaceService.get_system_stats

\* sum(student['image_count'] for student in all_students)
RECURSIVE SumImageCount(_)
SumImageCount(all_students) ==
    IF all_students = <<>> THEN 0
    ELSE Head(all_students).image_count + SumImageCount(Tail(all_students))

\* the statistics; the average is a float, carried in fixed point
get_system_stats(coll) ==
    LET all_students == get_all_students(coll)
        total_students == Len(all_students)
        total_embeddings == SumImageCount(all_students)
    IN [success |-> TRUE,
        total_students |-> total_students,
        total_embeddings |-> total_embeddings,
        confidence_threshold |-> confidence_threshold,
        average_embeddings_per_student |->
            IF total_students > 0 THEN (Scale * total_embeddings) \div total_students ELSE 0]

-----------------------------------------------------------------------------
\* The store accesses of one request, for requests handled at the same time.
\* Everything a handler does between two store accesses is local to it.

\* a collection whose index on student_id is not unique
duplicate_key_unindexed(coll, student_id) == FALSE

\* the unique index on student_id: insert_one raises DuplicateKeyError
duplicate_key(coll, student_id) == FindOne(coll, student_id) # 0

\* register_student up to and including the existence check
register_check(coll, name, student_id, image_paths) ==
    IF name = "" \/ student_id = "" THEN
        [pass |-> FALSE, result |-> RegisterFailure("Name and student ID are required", <<>>)]
    ELSE IF image_paths = <<>> THEN
        [pass |-> FALSE, result |-> RegisterFailure("At least one image is required", <<>>)]
    ELSE IF get_student_by_id(coll, student_id).found THEN
        [pass |-> FALSE, result |-> RegisterFailure("Student ID already exists", <<>>)]
    ELSE [pass |-> TRUE, result |-> RegisterFailure("", <<>>)]

\* register_student after the existence check: extraction, the gate, insert_one
\* and the except clause that answers when insert_one raises
register_insert(coll, name, student_id, image_paths) ==
    LET ex == Extracted(image_paths) IN
    IF ~EnoughEmbeddings(ex.successful_embeddings) THEN
        [result |-> [RegisterFailure("Not enough images processed successfully. Need at least 3.",
                                     ex.failed_images)
                        EXCEPT !.successful_embeddings = Len(ex.successful_embeddings)],
         coll |-> coll]
    ELSE IF duplicate_key(coll, student_id) THEN
        [result |-> RegisterFailure("E11000 duplicate key error", <<>>), coll |-> coll]
    ELSE
        [result |-> [success |-> TRUE, error |-> "", student_id |-> student_id, name |-> name,
                     db_id |-> Len(coll) + 1,
                     total_images |-> Len(image_paths),
                     successful_embeddings |-> Len(ex.successful_embeddings),
                     failed_images |-> ex.failed_images],
         coll |-> add_student(coll, name, student_id, ex.successful_embeddings)]

\* improve_recognition up to and including find_one of update_student_embeddings
improve_read(coll, student_id, image_paths) ==
    LET ex == Extracted(image_paths)
        new_embeddings == ex.successful_embeddings
        i == FindOne(coll, student_id)
    IN
    IF new_embeddings = <<>> THEN
        [pass |-> FALSE, current_embeddings |-> <<>>,
         result |-> [status |-> 400, success |-> FALSE, added_embeddings |-> 0,
                     failed_images |-> <<>>,
                     detail |-> "No valid embeddings generated from provided images"]]
    ELSE IF i = 0 THEN
        [pass |-> FALSE, current_embeddings |-> <<>>,
         result |-> [status |-> 404, success |-> FALSE, added_embeddings |-> 0,
                     failed_images |-> <<>>, detail |-> "Student not found"]]
    ELSE
        [pass |-> TRUE, current_embeddings |-> DeserializeAll(coll[i].embeddings),
         result |-> [status |-> 200, success |-> TRUE,
                     added_embeddings |-> Len(new_embeddings),
                     failed_images |-> ex.failed_images, detail |-> ""]]

\* a variant whose $set leaves image_count out
improve_write_stale_count(coll, student_id, current_embeddings, new_embeddings) ==
    LET i == FindOne(coll, student_id) IN
    IF i = 0 THEN coll
    ELSE [coll EXCEPT ![i].embeddings = SerializeAll(current_embeddings \o new_embeddings)]

\* update_one of update_student_embeddings: $set of the embeddings read earlier
\* followed by the new ones.  The $set also stores the request's own temporary
\* paths, so the document is always modified and the call answers True.
improve_write(coll, student_id, current_embeddings, new_embeddings) ==
    LET i == FindOne(coll, student_id)
        all_embeddings == current_embeddings \o new_embeddings
    IN
    IF i = 0 THEN coll
    ELSE [coll EXCEPT ![i].embeddings = SerializeAll(all_embeddings),
                      ![i].image_count = Len(all_embeddings)]

-----------------------------------------------------------------------------
\* app: the temporary files of the upload handlers

\* the loop that saves the uploads from the k-th on: the temporary file is
\* created, the upload is read and written to it, and then its name is
\* appended to temp_paths.  The file of the k-th upload is called k; fault_at
\* is the upload whose read or write raises, 0 for none.
RECURSIVE SaveUploads(_, _, _, _)
SaveUploads(images, k, fault_at, acc) ==
    IF k > Len(images) THEN acc
    ELSE LET created == [acc EXCEPT !.files = @ \cup {k}] IN
         IF k = fault_at THEN [created EXCEPT !.raised = TRUE]
         ELSE SaveUploads(images, k + 1, fault_at,
                          [created EXCEPT !.temp_paths = Append(@, k)])

save_uploads(images, fault_at) ==
    SaveUploads(images, 1, fault_at, [files |-> {}, temp_paths |-> <<>>, raised |-> FALSE])

\* for path in temp_paths: os.unlink(path)
unlink_all(files, temp_paths) == files \ {temp_paths[k] : k \in 1..Len(temp_paths)}

\* the files of the request that exist when improve_recognition has returned
\* or raised: the branch that updates the store and the except Exception
\* clause unlink temp_paths, the branch for no embedding raises without
\* doing so
improve_recognition_files(image_paths, fault_at) ==
    LET saved == save_uploads(image_paths, fault_at) IN
    IF saved.raised THEN unlink_all(saved.files, saved.temp_paths)
    ELSE IF Extracted(image_paths).successful_embeddings # <<>>
         THEN unlink_all(saved.files, saved.temp_paths)
         ELSE saved.files

\* POST /improve-recognition: status, students collection and the request's
\* files after the handler; store_raises tells whether update_student_embeddings raises
post_improve_recognition(coll, student_id, image_paths, fault_at, store_raises) ==
    LET saved == save_uploads(image_paths, fault_at)
        r == improve_recognition(coll, student_id, image_paths)
    IN
    IF saved.raised
       \/ (store_raises /\ Extracted(image_paths).successful_embeddings # <<>>)
    THEN [status |-> 500, coll |-> coll,
          files |-> unlink_all(saved.files, saved.temp_paths)]
    ELSE [status |-> r.result.status, coll |-> r.coll,
          files |-> improve_recognition_files(image_paths, fault_at)]

\* POST /register: status, students collection and the request's files after
\* the handler
post_register(coll, name, student_id, images, fault_at) ==
    LET saved == save_uploads(images, fault_at)
        r == register_student(coll, name, student_id, images)
    IN
    IF images = <<>> \/ Len(images) < 3 THEN [status |-> 400, coll |-> coll, files |-> {}]
    ELSE IF saved.raised
    THEN [status |-> 500, coll |-> coll,
          files |-> unlink_all(saved.files, saved.temp_paths)]
    ELSE [status |-> IF r.result.success THEN 201 ELSE 400, coll |-> r.coll,
          files |-> unlink_all(saved.files, saved.temp_paths)]

\* POST /attendance: status, attendance collection and the request's files
\* after the handler.  temp_path is assigned after the upload is written; the response
\* rounds the confidence, which is None when no student is active.
post_attendance(coll, att, content_type, image_path, timestamp, fault_at) ==
    LET saved == save_uploads(<<image_path>>, fault_at)
        r == mark_attendance(coll, att, image_path, timestamp)
    IN
    IF content_type # "image/jpeg" THEN [status |-> 400, att |-> att, files |-> {}]
    ELSE IF saved.raised
    THEN [status |-> 500, att |-> att,
          files |-> unlink_all(saved.files, saved.temp_paths)]
    ELSE [status |-> IF ~r.result.success THEN 400
                     ELSE IF r.result.attendance_marked THEN 200
                     ELSE IF get_all_embeddings(coll) = <<>> THEN 500
                     ELSE 200,
          att |-> r.att,
          files |-> unlink_all(saved.files, saved.temp_paths)]

-----------------------------------------------------------------------------
\* Inputs

\* image lists of one upload: distinct files, at most MaxImages of them
RECURSIVE InjectiveSeqs(_, _)
InjectiveSeqs(S, n) ==
    IF n = 0 THEN {<<>>}
    ELSE LET shorter == InjectiveSeqs(S, n - 1) IN
         shorter \cup {Append(p[1], p[2]) :
                          p \in {q \in shorter \X S :
                                    \A k \in 1..Len(q[1]) : q[1][k] # q[2]}}

ImageLists == InjectiveSeqs(Images, MaxImages)

\* reference photos of a registration: MinEmbeddings photos, each of pose A or B
\* (equal poses give equal embeddings)
ReferenceLists == [1..MinEmbeddings -> {"faceA.jpg", "faceB.jpg"}]

\* the same, all photos of one pose
UniformLists == {q \in ReferenceLists : \A k \in 1..Len(q) : q[k] = q[1]}

\* uploads of an augmentation request
NewImageLists == InjectiveSeqs({"faceA.jpg", "faceB.jpg", "noface.jpg"}, MaxImages)

\* (name, student_id) pairs of a registration request
RegisterIdentities ==
    {<<NameOf(sid), sid>> : sid \in Ids} \cup {<<"", "s1">>, <<"alice", "">>}

-----------------------------------------------------------------------------
\* Operations

Init ==
    /\ students = <<>>
    /\ attendance = <<>>
    /\ last = NoResult
    /\ calls = [c \in Calls |-> IdleCall]
    /\ temp_files = {}

\* a handler has ended and these of its files, the copies of images, exist
LeaveBehind(images, files) ==
    temp_files' = temp_files \cup {images[k] : k \in files}

Register(name, student_id, image_paths) ==
    LET r == register_student(students, name, student_id, image_paths) IN
    /\ students' = r.coll
    /\ last' = [op |-> "register", res |-> r.result]
    /\ UNCHANGED <<attendance, calls, temp_files>>

DeleteStudent(student_id) ==
    /\ students' = delete_student_coll(students, student_id)
    /\ last' = [op |-> "delete", student_id |-> student_id,
                res |-> delete_student_modified(students, student_id)]
    /\ UNCHANGED <<attendance, calls, temp_files>>

VerifyFace(image_path) ==
    /\ last' = [op |-> "verify", image_path |-> image_path,
                res |-> verify_face(students, image_path)]
    /\ UNCHANGED <<students, attendance, calls, temp_files>>

MarkAttendance(image_path, timestamp) ==
    LET r == mark_attendance(students, attendance, image_path, timestamp) IN
    /\ Len(attendance) < MaxAttendance
    /\ attendance' = r.att
    /\ last' = [op |-> "mark", image_path |-> image_path, res |-> r.result]
    /\ UNCHANGED <<students, calls, temp_files>>

\* mark_attendance during which the store rejects the insert
MarkAttendanceStoreFailure(image_path, timestamp) ==
    LET r == mark_attendance_store_error(students, attendance, image_path, timestamp)
        v == verify_face(students, image_path)
    IN
    /\ v.success /\ v.matched
    /\ attendance' = r.att
    /\ last' = [op |-> "mark_store_failure", image_path |-> image_path, res |-> r.result]
    /\ UNCHANGED <<students, calls, temp_files>>

ImproveRecognition(student_id, image_paths) ==
    LET r == improve_recognition(students, student_id, image_paths)
        i == FindOne(students, student_id)
    IN
    /\ i # 0 => Len(students[i].embeddings) + Len(Extracted(image_paths).successful_embeddings)
                    <= MaxEmbeddings
    /\ students' = r.coll
    /\ last' = [op |-> "improve", student_id |-> student_id, res |-> r.result]
    /\ LeaveBehind(image_paths, improve_recognition_files(image_paths, 0))
    /\ UNCHANGED <<attendance, calls>>

\* Registration workflow: every upload of at most MaxImages distinct files
DoRegister == \E idt \in RegisterIdentities, image_paths \in ImageLists :
                 Register(idt[1], idt[2], image_paths)
DoDelete == \E student_id \in Ids : DeleteStudent(student_id)
DoVerify == \E image_path \in ProbeImages \cup BadImages : VerifyFace(image_path)

Next == DoRegister \/ DoDelete \/ DoVerify

Spec == Init /\ [][Next]_vars

\* Verification over identities registered from MinEmbeddings reference photos
\* each showing pose A or pose B
DoRegisterReference ==
    \E student_id \in Ids, image_paths \in ReferenceLists :
        Register(NameOf(student_id), student_id, image_paths)

NextVerify == DoRegisterReference \/ DoDelete \/ DoVerify

SpecVerify == Init /\ [][NextVerify]_vars

\* Attendance marking over identities registered from photos of one pose
DoRegisterUniform ==
    \E student_id \in Ids, image_paths \in UniformLists :
        Register(NameOf(student_id), student_id, image_paths)
DoMark == \E image_path \in ProbeImages \cup BadImages, timestamp \in Timestamps :
             MarkAttendance(image_path, timestamp)
DoMarkStoreFailure ==
    \E image_path \in ProbeImages, timestamp \in Timestamps :
        MarkAttendanceStoreFailure(image_path, timestamp)

NextAttendance == DoRegisterUniform \/ DoDelete \/ DoMark \/ DoMarkStoreFailure

SpecAttendance == Init /\ [][NextAttendance]_vars

\* Augmentation of identities registered from the three face photos
DoRegisterOnce ==
    \E student_id \in Ids :
        Register(NameOf(student_id), student_id, <<"faceA.jpg", "faceB.jpg", "faceC.jpg">>)
DoImprove ==
    \E student_id \in Ids, image_paths \in NewImageLists :
        ImproveRecognition(student_id, image_paths)

NextAugment == DoRegisterOnce \/ DoDelete \/ DoImprove

SpecAugment == Init /\ [][NextAugment]_vars

\* Verification over a class of up to MaxStudents identities, enrolled in the
\* order of the class list, each from MinEmbeddings photos of one pose
ClassIds == <<"t1", "t2", "t3", "t4", "t5", "t6", "t7", "t8">>
ClassLists == {[k \in 1..MinEmbeddings |-> image_path] : image_path \in FaceImages}
ClassProbes == {"probe1.jpg", "probe2.jpg"}

DoRegisterClass ==
    \E image_paths \in ClassLists :
        /\ Len(students) < MaxStudents
        /\ Register(NameOf(ClassIds[Len(students) + 1]), ClassIds[Len(students) + 1],
                    image_paths)
DoDeleteClass == DeleteStudent(ClassIds[1])
DoVerifyClass == \E image_path \in ClassProbes : VerifyFace(image_path)

NextRanking == DoRegisterClass \/ DoDeleteClass \/ DoVerifyClass

SpecRanking == Init /\ [][NextRanking]_vars

\* Verification when the extractor delivers a zero vector for some image
DegenerateLists == [1..MinEmbeddings -> {"faceA.jpg", "blank.jpg"}]
DegenerateProbes == {"probe1.jpg", "blank.jpg"}

DoRegisterDegenerate ==
    \E student_id \in Ids, image_paths \in DegenerateLists :
        Register(NameOf(student_id), student_id, image_paths)
DoVerifyDegenerate == \E image_path \in DegenerateProbes : VerifyFace(image_path)

NextDegenerate == DoRegisterDegenerate \/ DoDelete \/ DoVerifyDegenerate

SpecDegenerate == Init /\ [][NextDegenerate]_vars

\* Attendance reports: check-ins on two days, two of them on the same day and
\* one with a zone designator, and the report of a day
ReportTimestamps ==
    Timestamps \cup {<<"2024-01-01", "T", "17:45:00", "Z">>}
ReportDates == {<<"2024-01-01">>, <<"2024-01-02">>, <<"2024-01-03">>}

ListAttendance(date) ==
    /\ last' = [op |-> "list", date |-> date,
                res |-> get_attendance_by_date(attendance, date)]
    /\ UNCHANGED <<students, attendance, calls, temp_files>>

DoMarkReport ==
    \E image_path \in {"probe1.jpg", "probe4.jpg"}, timestamp \in ReportTimestamps :
        MarkAttendance(image_path, timestamp)
DoListAttendance == \E date \in ReportDates : ListAttendance(date)

NextReport == DoRegisterUniform \/ DoMarkReport \/ DoListAttendance

SpecReport == Init /\ [][NextReport]_vars

\* Registrations handled at the same time: each request first passes the
\* checks of register_student, later extracts and inserts
ConcurrentUploads ==
    {<<"faceA.jpg", "faceB.jpg", "faceC.jpg">>, <<"faceB.jpg", "noface.jpg", "faceA.jpg">>}

RegisterCheck(c, name, student_id, image_paths) ==
    LET r == register_check(students, name, student_id, image_paths) IN
    /\ calls[c].pc = "idle"
    /\ calls' = [calls EXCEPT ![c] =
                    [pc |-> IF r.pass THEN "checked" ELSE "done",
                     op |-> "register", name |-> name, student_id |-> student_id,
                     image_paths |-> image_paths, res |-> r.result]]
    /\ UNCHANGED <<students, attendance, last, temp_files>>

RegisterInsert(c) ==
    /\ calls[c].pc = "checked"
    /\ LET r == register_insert(students, calls[c].name, calls[c].student_id,
                                calls[c].image_paths)
       IN /\ students' = r.coll
          /\ calls' = [calls EXCEPT ![c].pc = "done", ![c].res = r.result]
    /\ UNCHANGED <<attendance, last, temp_files>>

DoRegisterCheck ==
    \E c \in Calls, student_id \in Ids, image_paths \in ConcurrentUploads :
        RegisterCheck(c, NameOf(student_id), student_id, image_paths)
DoRegisterInsert == \E c \in Calls : RegisterInsert(c)

NextConcurrentRegister == DoRegisterCheck \/ DoRegisterInsert \/ DoDelete

SpecConcurrentRegister == Init /\ [][NextConcurrentRegister]_vars

\* Augmentations handled at the same time: each request first extracts and
\* reads the student's document, later writes the combined embeddings
AugmentUploads == {<<"faceA.jpg">>, <<"noface.jpg", "faceB.jpg">>, <<"noface.jpg">>}

ImproveRead(c, student_id, image_paths) ==
    LET r == improve_read(students, student_id, image_paths) IN
    /\ calls[c].pc = "idle"
    /\ calls' = [calls EXCEPT ![c] =
                    [pc |-> IF r.pass THEN "read" ELSE "done",
                     op |-> "improve", student_id |-> student_id,
                     image_paths |-> image_paths,
                     current_embeddings |-> r.current_embeddings,
                     new_embeddings |-> Extracted(image_paths).successful_embeddings,
                     res |-> r.result]]
    /\ LeaveBehind(image_paths, IF r.result.status = 400
                                THEN improve_recognition_files(image_paths, 0)
                                ELSE {})
    /\ UNCHANGED <<students, attendance, last>>

ImproveWrite(c) ==
    /\ calls[c].pc = "read"
    /\ students' = improve_write(students, calls[c].student_id,
                                 calls[c].current_embeddings, calls[c].new_embeddings)
    /\ calls' = [calls EXCEPT ![c].pc = "done"]
    /\ UNCHANGED <<attendance, last, temp_files>>

DoImproveRead ==
    \E c \in Calls, student_id \in Ids, image_paths \in AugmentUploads :
        ImproveRead(c, student_id, image_paths)
DoImproveWrite == \E c \in Calls : ImproveWrite(c)

NextConcurrentAugment == DoRegisterOnce \/ DoDelete \/ DoImproveRead \/ DoImproveWrite

SpecConcurrentAugment == Init /\ [][NextConcurrentAugment]_vars

\* The life of the identities: registrations (some refused for too few
\* faces), augmentations, soft deletes, verifications and attendance marking
\* in any order
LifeLists ==
    {<<"faceA.jpg", "faceB.jpg", "faceC.jpg">>, <<"faceB.jpg", "noface.jpg", "faceA.jpg">>}
LifeUploads == {<<"faceA.jpg">>, <<"noface.jpg", "faceB.jpg">>}

DoRegisterLife ==
    \E student_id \in Ids, image_paths \in LifeLists :
        Register(NameOf(student_id), student_id, image_paths)
DoImproveLife ==
    \E student_id \in Ids, image_paths \in LifeUploads :
        ImproveRecognition(student_id, image_paths)
DoVerifyLife == VerifyFace("probe1.jpg")
DoMarkLife == MarkAttendance("probe1.jpg", <<"2024-01-01", "T", "09:00:00">>)

NextLife == DoRegisterLife \/ DoImproveLife \/ DoDelete \/ DoVerifyLife \/ DoMarkLife

SpecLife == Init /\ [][NextLife]_vars

\* Augmentations of identities of which some have been soft-deleted
NextInactive == DoRegisterOnce \/ DoDelete \/ DoImproveLife

SpecInactive == Init /\ [][NextInactive]_vars

\* Statistics next to registrations, soft deletes and augmentations; the
\* store accesses of the augmentations interleave in every way, one request
\* after the other included
GetSystemStats ==
    /\ last' = [op |-> "stats", res |-> get_system_stats(students)]
    /\ UNCHANGED <<students, attendance, calls, temp_files>>

DoImproveReadStats ==
    \E c \in Calls, student_id \in Ids, image_paths \in LifeUploads :
        ImproveRead(c, student_id, image_paths)

NextStats ==
    DoRegisterOnce \/ DoDelete \/ DoImproveReadStats \/ DoImproveWrite \/ GetSystemStats

SpecStats == Init /\ [][NextStats]_vars

\* The upload handlers with the temporary files they create: any upload may
\* fail while it is saved, and the store may raise during an augmentation
PostRegister(name, student_id, images, fault_at) ==
    LET r == post_register(students, name, student_id, images, fault_at) IN
    /\ students' = r.coll
    /\ last' = [op |-> "post_register", status |-> r.status]
    /\ LeaveBehind(images, r.files)
    /\ UNCHANGED <<attendance, calls>>

PostAttendance(content_type, image_path, timestamp, fault_at) ==
    LET r == post_attendance(students, attendance, content_type,
                             image_path, timestamp, fault_at)
    IN
    /\ Len(attendance) < MaxAttendance
    /\ attendance' = r.att
    /\ last' = [op |-> "post_attendance", status |-> r.status]
    /\ LeaveBehind(<<image_path>>, r.files)
    /\ UNCHANGED <<students, calls>>

PostImproveRecognition(student_id, image_paths, fault_at, store_raises) ==
    LET r == post_improve_recognition(students, student_id, image_paths,
                                      fault_at, store_raises)
        i == FindOne(students, student_id)
    IN
    /\ i # 0 => Len(students[i].embeddings) + Len(Extracted(image_paths).successful_embeddings)
                    <= MaxEmbeddings
    /\ students' = r.coll
    /\ last' = [op |-> "post_improve_recognition", status |-> r.status]
    /\ LeaveBehind(image_paths, r.files)
    /\ UNCHANGED <<attendance, calls>>

ContentTypes == {"image/jpeg", "text/plain"}
RegisterUploads ==
    {<<"faceA.jpg", "faceB.jpg">>, <<"faceA.jpg", "faceB.jpg", "faceC.jpg">>,
     <<"faceA.jpg", "noface.jpg", "faceB.jpg">>}

DoPostRegister ==
    \E images \in RegisterUploads, fault_at \in 0..1 :
        PostRegister(NameOf("s1"), "s1", images, fault_at)
DoPostAttendance ==
    \E content_type \in ContentTypes, image_path \in {"probe1.jpg", "noface.jpg"},
       fault_at \in 0..1 :
        PostAttendance(content_type, image_path, <<"2024-01-01", "T", "09:00:00">>, fault_at)
DoPostImproveRecognition ==
    \E student_id \in Ids, image_paths \in AugmentUploads, fault_at \in 0..1,
       store_raises \in BOOLEAN :
        PostImproveRecognition(student_id, image_paths, fault_at, store_raises)

NextTempFiles == DoPostRegister \/ DoPostAttendance \/ DoPostImproveRecognition

SpecTempFiles == Init /\ [][NextTempFiles]_vars

-----------------------------------------------------------------------------
\* Properties of verification (SpecVerify)

\* positions of the active identities in the store
ActiveIdx == {i \in 1..Len(students) : students[i].is_active}

\* the probe embedding of the last verification
ProbeOf(image_path) == generate_embedding(image_path).embedding

\* the distances between the probe and the stored embeddings of identity i, as a set
DistanceSet(image_path, i) ==
    {cosine_distance(ProbeOf(image_path), Deserialize(students[i].embeddings[k])).v :
        k \in 1..Len(students[i].embeddings)}

\* least element of a non-empty set of numbers
Least(D) == CHOOSE d \in D : \A e \in D : d <= e

\* aggregate distance of identity i, and the global minimum over the active ones
Aggregate(image_path, i) == Least(DistanceSet(image_path, i))
GlobalMinimum(image_path) == Least({Aggregate(image_path, i) : i \in ActiveIdx})

\* the last operation was a verification that reached a decision over a
\* non-empty active set
Decided ==
    /\ last.op = "verify"
    /\ last.res.success
    /\ ActiveIdx # {}

\* the identity the decision carries: 'student' when matched, else 'best_match'
Carried == IF last.res.matched THEN last.res.student ELSE last.res.best_match

\* C1: verify reports matched exactly when the global minimum aggregate
\* distance is at most the confidence threshold (0.6), boundary included.
C1_MatchedIffWithinThreshold ==
    Decided => (last.res.matched <=> GlobalMinimum(last.image_path) <= confidence_threshold)

\* a match whose best distance is exactly the threshold
C1_Witness ==
    /\ Decided
    /\ last.res.matched
    /\ GlobalMinimum(last.image_path) = confidence_threshold
    /\ last.res.distance = Num(confidence_threshold)

\* C2: the distance reported for an identity is the least distance between the
\* probe and any of its stored embeddings, whatever their order.
C2_AggregateIsMinimum ==
    Decided =>
        \A m \in 1..Len(last.res.all_matches) :
            \E i \in ActiveIdx :
                /\ students[i].student_id = last.res.all_matches[m].student_id
                /\ last.res.all_matches[m].distance = Num(Aggregate(last.image_path, i))

\* an identity whose closest embedding is not the first one stored
C2_Witness ==
    /\ Decided
    /\ \E i \in ActiveIdx :
          /\ Cardinality(DistanceSet(last.image_path, i)) > 1
          /\ cosine_distance(ProbeOf(last.image_path),
                             Deserialize(students[i].embeddings[1])).v
                > Aggregate(last.image_path, i)
          /\ \E m \in 1..Len(last.res.all_matches) :
                /\ last.res.all_matches[m].student_id = students[i].student_id
                /\ last.res.all_matches[m].distance = Num(Aggregate(last.image_path, i))

\* C3: the carried identity is active, has the global minimum aggregate
\* distance, and precedes every other identity with that distance.
C3_BestIsFirstGlobalMinimum ==
    Decided =>
        /\ ~Carried.is_none
        /\ \E i \in ActiveIdx :
              /\ students[i].student_id = Carried.student_id
              /\ students[i].name = Carried.name
              /\ Carried.distance = Num(GlobalMinimum(last.image_path))
              /\ Aggregate(last.image_path, i) = GlobalMinimum(last.image_path)
              /\ \A j \in ActiveIdx :
                    j < i => Aggregate(last.image_path, j) > GlobalMinimum(last.image_path)

\* two active identities share the global minimum and the earlier one is carried
C3_Witness ==
    /\ Decided
    /\ \E i, j \in ActiveIdx :
          /\ i < j
          /\ Aggregate(last.image_path, i) = GlobalMinimum(last.image_path)
          /\ Aggregate(last.image_path, j) = GlobalMinimum(last.image_path)
          /\ Carried.student_id = students[i].student_id

\* the identities the ranked list of the last verification names
Ranked == {last.res.all_matches[m].student_id : m \in 1..Len(last.res.all_matches)}

\* the identities of the active documents
ActiveIds == {students[i].student_id : i \in ActiveIdx}

\* C15: every verification works on the identities that are active in the
\* store at that moment: the identity it carries (as student or as best_match)
\* and every entry of its ranked list is active, so a soft-deleted identity is
\* never returned, and every active identity, however recently registered, is
\* ranked (as far as the list reaches).
C15_CandidatesAreTheActive ==
    (last.op = "verify" /\ last.res.success) =>
        /\ Ranked \subseteq ActiveIds
        /\ Cardinality(ActiveIds) <= TopN => Ranked = ActiveIds
        /\ ~last.res.student.is_none => last.res.student.student_id \in ActiveIds
        /\ ~last.res.best_match.is_none => last.res.best_match.student_id \in ActiveIds
        /\ ActiveIdx # {} => ~Carried.is_none

\* a verification after a soft delete carries the identity registered last,
\* although the soft-deleted identity is closer to the probe
C15_Witness ==
    /\ Decided
    /\ Len(students) = 2
    /\ ~students[1].is_active
    /\ students[2].is_active
    /\ Carried.student_id = students[2].student_id
    /\ Ranked = {students[2].student_id}
    /\ Aggregate(last.image_path, 1) < Aggregate(last.image_path, 2)

\* C17: a verification over a non-empty active set that is not matched carries
\* as best_match the identity with the global minimum aggregate distance, and
\* reports that distance, which is above the threshold.
C17_UnmatchedCarriesNearest ==
    (Decided /\ ~last.res.matched) =>
        /\ ~last.res.best_match.is_none
        /\ last.res.best_match.student_id \in
              {students[i].student_id :
                  i \in {j \in ActiveIdx :
                            Aggregate(last.image_path, j) = GlobalMinimum(last.image_path)}}
        /\ last.res.best_match.distance = Num(GlobalMinimum(last.image_path))
        /\ last.res.distance = Num(GlobalMinimum(last.image_path))
        /\ GlobalMinimum(last.image_path) > confidence_threshold

\* an unmatched verification over two active identities carries the one stored
\* second, which is nearer than the first but above the threshold
C17_Witness ==
    /\ Decided
    /\ ~last.res.matched
    /\ ActiveIdx = {1, 2}
    /\ Aggregate(last.image_path, 2) < Aggregate(last.image_path, 1)
    /\ last.res.best_match.student_id = students[2].student_id
    /\ last.res.best_match.distance = Num(Aggregate(last.image_path, 2))

\* position in the store of the identity a ranked entry names
PositionOf(entry) == FindOne(students, entry.student_id)

\* identity i is closer to the probe than identity j, or as close and earlier
Precedes(image_path, i, j) ==
    \/ Aggregate(image_path, i) < Aggregate(image_path, j)
    \/ Aggregate(image_path, i) = Aggregate(image_path, j) /\ i < j

\* C18: the ranked list of every decision over a non-empty active set has
\* min(5, number of active identities) entries, each an active identity with
\* its aggregate distance and none twice, in ascending order of distance with
\* equal distances in store order, and no identity left out precedes one listed.
C18_RankedTopFive ==
    Decided =>
        LET L == last.res.all_matches
            n == Cardinality(ActiveIdx)
        IN
        /\ Len(L) = IF n < 5 THEN n ELSE 5
        /\ \A m \in 1..Len(L) :
              /\ PositionOf(L[m]) \in ActiveIdx
              /\ L[m].name = students[PositionOf(L[m])].name
              /\ L[m].distance = Num(Aggregate(last.image_path, PositionOf(L[m])))
        /\ \A m, k \in 1..Len(L) :
              m < k => Precedes(last.image_path, PositionOf(L[m]), PositionOf(L[k]))
        /\ \A i \in ActiveIdx :
              (\A m \in 1..Len(L) : PositionOf(L[m]) # i) =>
                  \A m \in 1..Len(L) : Precedes(last.image_path, PositionOf(L[m]), i)

\* six active identities: the list has five entries, the first two at one
\* distance, and the identity left out is as far from the probe as the last
\* one listed
C18_Witness ==
    /\ Decided
    /\ Cardinality(ActiveIdx) > 5
    /\ Len(last.res.all_matches) = 5
    /\ last.res.all_matches[1].distance = last.res.all_matches[2].distance
    /\ last.res.all_matches[2].distance # last.res.all_matches[3].distance
    /\ \E i \in ActiveIdx :
          /\ \A m \in 1..5 : PositionOf(last.res.all_matches[m]) # i
          /\ Num(Aggregate(last.image_path, i)) = last.res.all_matches[5].distance

-----------------------------------------------------------------------------
\* Properties of attendance marking (SpecAttendance)

\* C4: mark_attendance on a probe that verify classifies as matched appends
\* exactly one record, for the matched identity and with the caller's
\* timestamp, and returns its handle; on any other probe it appends nothing;
\* the records that existed before are unchanged either way.
C4_OneRecordPerMatch ==
    [][\A image_path \in ProbeImages \cup BadImages, timestamp \in Timestamps :
          (last'.op = "mark" /\ last'.image_path = image_path
             /\ MarkAttendance(image_path, timestamp)) =>
             LET v == verify_face(students, image_path) IN
             IF v.success /\ v.matched
             THEN /\ Len(attendance') = Len(attendance) + 1
                  /\ SubSeq(attendance', 1, Len(attendance)) = attendance
                  /\ attendance'[Len(attendance')].student_id = v.student.student_id
                  /\ attendance'[Len(attendance')].check_in = timestamp
                  /\ last'.res.success /\ last'.res.attendance_marked
                  /\ last'.res.attendance_id = attendance'[Len(attendance')].id
                  /\ \A k \in 1..Len(attendance) :
                        attendance[k].id # last'.res.attendance_id
             ELSE /\ attendance' = attendance
                  /\ ~last'.res.attendance_marked]_vars

\* a second record has been appended after an earlier one, and its handle returned
C4_Witness ==
    /\ last.op = "mark"
    /\ last.res.success /\ last.res.attendance_marked
    /\ Len(attendance) = 2
    /\ attendance[2].id = last.res.attendance_id
    /\ attendance[2].student_id = last.res.student_id
    /\ attendance[1].check_in # attendance[2].check_in

\* C5: when verify matched and the store then refused the insert, the call
\* reports an error (success false, with a cause), not an unmarked success,
\* and no record was added.
C5_StoreFailureIsError ==
    [][\A image_path \in ProbeImages, timestamp \in Timestamps :
          (last'.op = "mark_store_failure" /\ last'.image_path = image_path
             /\ MarkAttendanceStoreFailure(image_path, timestamp)) =>
             /\ verify_face(students, image_path).matched
             /\ ~last'.res.success
             /\ last'.res.error # ""
             /\ ~(last'.res.success /\ ~last'.res.attendance_marked)
             /\ attendance' = attendance]_vars

\* a store failure after a match has been answered
C5_Witness ==
    /\ last.op = "mark_store_failure"
    /\ verify_face(students, last.image_path).matched
    /\ ~last.res.success

\* C16: with no active identity in the store (none stored, or soft-deleted
\* ones only), verifying a probe that can be embedded gives the normal outcome
\* 'no students registered' (success true, matched false, no error raised),
\* and marking attendance with it answers success without a record.
C16_EmptySetIsNoError ==
    ActiveIdx = {} =>
        /\ \A image_path \in ProbeImages :
              LET v == verify_face(students, image_path) IN
              /\ v.success
              /\ ~v.matched
              /\ v.error = "No students registered in the system"
              /\ v.student.is_none /\ v.best_match.is_none
              /\ v.all_matches = <<>>
        /\ \A image_path \in ProbeImages, timestamp \in Timestamps :
              LET m == mark_attendance(students, attendance, image_path, timestamp) IN
              /\ m.result.success
              /\ ~m.result.attendance_marked
              /\ m.att = attendance
        /\ (last.op = "mark" /\ last.image_path \in ProbeImages) =>
              (last.res.success /\ ~last.res.attendance_marked)

\* attendance was marked for an identity, the identity was soft-deleted, and a
\* later attempt over the then empty active set was answered without a record
C16_Witness ==
    /\ last.op = "mark"
    /\ last.image_path \in ProbeImages
    /\ Len(students) = 1
    /\ ActiveIdx = {}
    /\ last.res.success
    /\ ~last.res.attendance_marked
    /\ Len(attendance) = 1

\* C20: when no embedding can be extracted from the probe, verification and
\* attendance marking answer a failure (success false, with the cause), which
\* differs from the outcome 'not matched' (success true), and no record is added.
C20_ExtractionFailureIsFailure ==
    /\ \A image_path \in BadImages :
          LET v == verify_face(students, image_path) IN
          /\ ~v.success
          /\ v.error = generate_embedding(image_path).error
          /\ v.error # ""
    /\ \A image_path \in BadImages, timestamp \in Timestamps :
          LET m == mark_attendance(students, attendance, image_path, timestamp) IN
          /\ ~m.result.success
          /\ m.result.error = generate_embedding(image_path).error
          /\ ~(m.result.success /\ ~m.result.attendance_marked)
          /\ m.att = attendance
    /\ (last.op = "mark" /\ last.image_path \in BadImages) =>
          (~last.res.success /\ last.res.error # "" /\ ~last.res.attendance_marked)

\* a probe without a face was answered with a failure while an identity was
\* active, and the record marked before is still the only one
C20_Witness ==
    /\ last.op = "mark"
    /\ last.image_path \in BadImages
    /\ ~last.res.success
    /\ last.res.error = "Face could not be detected"
    /\ ActiveIdx # {}
    /\ Len(attendance) = 1

-----------------------------------------------------------------------------
\* Properties of registration (Spec)

\* requests that carry a name and an identity_id
GivenIdentities == {idt \in RegisterIdentities : idt[1] # "" /\ idt[2] # ""}

Extractable(image_path) == generate_embedding(image_path).ok
Unextractable(image_path) == ~generate_embedding(image_path).ok

\* what the extractor yields for the images of an upload, in upload order
ExpectedEmbeddings(image_paths) ==
    LET good == SelectSeq(image_paths, Extractable) IN
    [k \in 1..Len(good) |-> generate_embedding(good[k]).embedding]

ExpectedFailures(image_paths) ==
    LET bad == SelectSeq(image_paths, Unextractable) IN
    [k \in 1..Len(bad) |-> [path |-> bad[k], error |-> generate_embedding(bad[k]).error]]

Stored(student_id) == \E i \in 1..Len(students) : students[i].student_id = student_id

\* C6: a registration with an unused identity_id from which fewer than 3
\* embeddings could be extracted fails, reports the cause of every image that
\* failed, and leaves the stored identities as they were.
C6_TooFewEmbeddingsFails ==
    \A idt \in GivenIdentities, image_paths \in ImageLists :
        (~Stored(idt[2]) /\ Len(ExpectedEmbeddings(image_paths)) < MinEmbeddings) =>
            LET r == register_student(students, idt[1], idt[2], image_paths) IN
            /\ ~r.result.success
            /\ r.result.error # ""
            /\ r.result.failed_images = ExpectedFailures(image_paths)
            /\ r.coll = students

\* a registration of four images was refused with two embeddings extracted
\* and the failure reported, next to an identity already stored
C6_Witness ==
    /\ last.op = "register"
    /\ ~last.res.success
    /\ last.res.successful_embeddings = MinEmbeddings - 1
    /\ last.res.failed_images # <<>>
    /\ Len(students) = 1

C8_EveryImageAccounted ==
    /\ \A image_paths \in ImageLists :
          LET ex == Extracted(image_paths) IN
          /\ ex.successful_embeddings = ExpectedEmbeddings(image_paths)
          /\ ex.failed_images = ExpectedFailures(image_paths)
          /\ Len(ex.successful_embeddings) + Len(ex.failed_images) = Len(image_paths)
    /\ (last.op = "register" /\ last.res.success) =>
          last.res.total_images = last.res.successful_embeddings + Len(last.res.failed_images)
    /\ \A idt \in GivenIdentities, image_paths \in ImageLists :
          LET r == register_student(students, idt[1], idt[2], image_paths) IN
          r.result.success =>
              /\ r.result.total_images = Len(image_paths)
              /\ r.result.successful_embeddings = Len(ExpectedEmbeddings(image_paths))
              /\ r.result.failed_images = ExpectedFailures(image_paths)

\* a registration succeeded although one of its four images failed
C8_Witness ==
    /\ last.op = "register"
    /\ last.res.success
    /\ last.res.total_images = 4
    /\ last.res.successful_embeddings = 3
    /\ Len(last.res.failed_images) = 1

\* C9: a registration with an unused identity_id and at least 3 extracted
\* embeddings succeeds and inserts one active identity whose embeddings are
\* the extracted ones in upload order, next to the unchanged earlier documents.
C9_RegistrationStoresEmbeddings ==
    \A idt \in GivenIdentities, image_paths \in ImageLists :
        (~Stored(idt[2]) /\ Len(ExpectedEmbeddings(image_paths)) >= MinEmbeddings) =>
            LET r == register_student(students, idt[1], idt[2], image_paths)
                new == r.coll[Len(r.coll)]
            IN
            /\ r.result.success
            /\ Len(r.coll) = Len(students) + 1
            /\ SubSeq(r.coll, 1, Len(students)) = students
            /\ new.student_id = idt[2]
            /\ new.name = idt[1]
            /\ new.is_active
            /\ DeserializeAll(new.embeddings) = ExpectedEmbeddings(image_paths)

\* an identity has just been registered from exactly 3 embeddings that are
\* stored in an order that is neither ascending nor descending in the first component
C9_Witness ==
    /\ last.op = "register"
    /\ last.res.success
    /\ last.res.successful_embeddings = MinEmbeddings
    /\ Len(students) = 2
    /\ students[2].student_id = last.res.student_id
    /\ students[2].is_active
    /\ DeserializeAll(students[2].embeddings) = <<Vb, Va, Vc>>

-----------------------------------------------------------------------------
\* Properties of augmentation (SpecAugment)

\* C10: augmenting a stored identity with an upload from which N >= 1
\* embeddings are extracted succeeds for every such N and leaves the identity
\* with its old embeddings, unchanged and in order, followed by the N new
\* ones in upload order; every other document is unchanged.
C10_AugmentAppends ==
    \A i \in 1..Len(students), image_paths \in NewImageLists :
        LET new_embeddings == ExpectedEmbeddings(image_paths)
            N == Len(new_embeddings)
            r == improve_recognition(students, students[i].student_id, image_paths)
            old == DeserializeAll(students[i].embeddings)
        IN
        N >= 1 =>
            /\ r.result.success
            /\ r.result.added_embeddings = N
            /\ Len(r.coll) = Len(students)
            /\ Len(r.coll[i].embeddings) = Len(students[i].embeddings) + N
            /\ DeserializeAll(r.coll[i].embeddings) = old \o new_embeddings
            /\ SubSeq(DeserializeAll(r.coll[i].embeddings), 1, Len(old)) = old
            /\ \A j \in 1..Len(students) : j # i => r.coll[j] = students[j]

\* an identity registered with three embeddings has just received two more,
\* of which the first one extracted is stored first
C10_Witness ==
    /\ last.op = "improve"
    /\ last.res.success
    /\ last.res.added_embeddings = 2
    /\ \E i \in 1..Len(students) :
          /\ students[i].student_id = last.student_id
          /\ DeserializeAll(students[i].embeddings) = <<Va, Vb, Vc, Vb, Va>>

\* C11 as claimed: augmenting an identity_id that is not stored, with an upload
\* from which no embedding can be extracted, fails with NotFound (HTTP 404).
C11_MissingIdentityIsNotFound ==
    \A student_id \in Ids, image_paths \in NewImageLists :
        (~Stored(student_id) /\ image_paths # <<>>
            /\ ExpectedEmbeddings(image_paths) = <<>>) =>
            LET r == improve_recognition(students, student_id, image_paths) IN
            /\ ~r.result.success
            /\ r.result.status = 404

\* C12: augmenting an identity_id that is not stored, with an upload from which
\* at least one embedding is extracted, fails with NotFound (HTTP 404) and leaves
\* every stored document as it was; no document is created.
C12_MissingIdentityLeavesStore ==
    \A student_id \in Ids, image_paths \in NewImageLists :
        (~Stored(student_id) /\ Len(ExpectedEmbeddings(image_paths)) >= 1) =>
            LET r == improve_recognition(students, student_id, image_paths) IN
            /\ ~r.result.success
            /\ r.result.status = 404
            /\ r.result.detail = "Student not found"
            /\ r.coll = students

\* NotFound has been answered for an identity_id that is not stored, next to a
\* stored identity that still has the embeddings it was registered with
C12_Witness ==
    /\ last.op = "improve"
    /\ last.res.status = 404
    /\ ~Stored(last.student_id)
    /\ Len(students) = 1
    /\ DeserializeAll(students[1].embeddings) = <<Va, Vb, Vc>>

-----------------------------------------------------------------------------
\* Properties of registrations handled at the same time (SpecConcurrentRegister)

\* the requests that have been answered with success for student_id
Succeeded(student_id) ==
    {c \in Calls : /\ calls[c].pc = "done"
                   /\ calls[c].student_id = student_id
                   /\ calls[c].res.success}

\* C13: of the registrations with one identity_id, also of those that all
\* passed the existence check before any of them inserted, at most one is
\* answered with success, and the store never holds two documents with the
\* same identity_id, soft-deleted ones included.
C13_OneRegistrationPerId ==
    /\ \A student_id \in Ids : Cardinality(Succeeded(student_id)) <= 1
    /\ \A i, j \in 1..Len(students) :
          students[i].student_id = students[j].student_id => i = j

\* two registrations with one identity_id both passed the existence check;
\* one was answered with success, the other was refused by the store's index
C13_Witness ==
    \E c, d \in Calls :
        /\ c # d
        /\ calls[c].pc = "done" /\ calls[d].pc = "done"
        /\ calls[c].student_id = calls[d].student_id
        /\ calls[c].res.success
        /\ ~calls[d].res.success
        /\ calls[d].res.error = "E11000 duplicate key error"
        /\ Len(students) = 1

-----------------------------------------------------------------------------
\* Properties of augmentations handled at the same time (SpecConcurrentAugment)

\* the embeddings every identity of this workflow is registered with
Registered == ExpectedEmbeddings(<<"faceA.jpg", "faceB.jpg", "faceC.jpg">>)

\* the augmentations of student_id answered with success, and those in flight
Augmented(student_id) ==
    {c \in Calls : /\ calls[c].pc = "done"
                   /\ calls[c].student_id = student_id
                   /\ calls[c].res.success}
InFlight(student_id) ==
    {c \in Calls : calls[c].pc = "read" /\ calls[c].student_id = student_id}

RECURSIVE NewCount(_)
NewCount(S) ==
    IF S = {} THEN 0
    ELSE LET c == CHOOSE x \in S : TRUE
         IN Len(calls[c].new_embeddings) + NewCount(S \ {c})

Occurs(emb, embs) == \E k \in 1..Len(embs) : embs[k] = emb

\* the number of embeddings stored for the active identities at positions I
RECURSIVE EmbeddingCount(_)
EmbeddingCount(I) ==
    IF I = {} THEN 0
    ELSE LET i == CHOOSE x \in I : TRUE
         IN Len(students[i].embeddings) + EmbeddingCount(I \ {i})

\* C14 as claimed: once the augmentations of an identity that were answered
\* with success have all completed, its embedding sequence consists of the
\* embeddings stored before and the new embeddings of every one of those
\* calls, whatever the order of their store reads and writes.
C14_NoLostUpdate ==
    \A i \in 1..Len(students) :
        LET student_id == students[i].student_id
            embs == DeserializeAll(students[i].embeddings)
        IN
        InFlight(student_id) = {} =>
            /\ SubSeq(embs, 1, Len(Registered)) = Registered
            /\ Len(embs) = Len(Registered) + NewCount(Augmented(student_id))
            /\ \A c \in Augmented(student_id) :
                  \A k \in 1..Len(calls[c].new_embeddings) :
                      Occurs(calls[c].new_embeddings[k], embs)

-----------------------------------------------------------------------------
\* Properties of degenerate embeddings (SpecDegenerate)

\* C19 as claimed: a verification never reaches a decision from an undefined
\* distance: whenever it answers with a decision and the probe or a stored
\* embedding of an active identity has zero norm, the distance between the
\* two is defined as +infinity (otherwise the call fails).
C19_ZeroNormIsGuarded ==
    (last.op = "verify" /\ last.res.success /\ ActiveIdx # {}) =>
        \A i \in ActiveIdx :
            \A k \in 1..Len(students[i].embeddings) :
                LET emb == Deserialize(students[i].embeddings[k])
                    probe == ProbeOf(last.image_path)
                IN (Norm(probe) = 0 \/ Norm(emb) = 0) => cosine_distance(probe, emb) = Inf

-----------------------------------------------------------------------------
\* Properties of attendance reports (SpecReport)

\* the part of a timestamp before its first 'T'
DatePortion(t) ==
    LET i == CHOOSE i \in 1..Len(t) : t[i] = "T" /\ \A j \in 1..(i - 1) : t[j] # "T"
    IN SubSeq(t, 1, i - 1)

\* C21: the report of a date consists of exactly the attendance records whose
\* check-in timestamp has that date before its 'T', each once, in the order
\* of recording, with the identity and the timestamp recorded.
C21_ReportIsByDatePortion ==
    last.op = "list" =>
        /\ \A k \in 1..Len(attendance) :
              (\E m \in 1..Len(last.res) : last.res[m].id = attendance[k].id)
                 <=> DatePortion(attendance[k].check_in) = last.date
        /\ \A m \in 1..Len(last.res) :
              \E k \in 1..Len(attendance) :
                  /\ attendance[k].id = last.res[m].id
                  /\ attendance[k].student_id = last.res[m].student_id
                  /\ attendance[k].check_in = last.res[m].check_in
        /\ \A m, n \in 1..Len(last.res) : m < n => last.res[m].id < last.res[n].id

\* a report lists one of two recorded check-ins: the other is of another day
C21_Witness ==
    /\ last.op = "list"
    /\ Len(attendance) = 2
    /\ Len(last.res) = 1
    /\ last.res[1].id = 2
    /\ last.res[1].check_in = <<"2024-01-01", "T", "17:45:00", "Z">>

-----------------------------------------------------------------------------
\* Properties of the life of the identities (SpecLife)

IsPrefix(s, t) == Len(s) <= Len(t) /\ SubSeq(t, 1, Len(s)) = s

\* C22: every stored identity has at least one embedding, and every operation
\* leaves every stored identity in its place with its embedding sequence as a
\* prefix of the new one: embeddings are appended, never removed or altered.
C22_EmbeddingsOnlyGrow ==
    /\ [](\A i \in 1..Len(students) : Len(students[i].embeddings) >= 1)
    /\ [][\A i \in 1..Len(students) :
             /\ i <= Len(students')
             /\ students'[i].student_id = students[i].student_id
             /\ IsPrefix(DeserializeAll(students[i].embeddings),
                         DeserializeAll(students'[i].embeddings))]_vars

\* attendance has been marked for an identity that was augmented twice, while
\* another identity is soft-deleted
C22_Witness ==
    /\ last.op = "mark"
    /\ last.res.attendance_marked
    /\ Len(students) = 2
    /\ \E i, j \in 1..2 :
          /\ students[i].student_id = last.res.student_id
          /\ Len(students[i].embeddings) = MinEmbeddings + 2
          /\ ~students[j].is_active

\* C23: a soft delete leaves every document in its place and changes nothing
\* but the active flag of the identity named: get_student_by_id still returns
\* it with the same name, identity_id and embeddings, every other identity is
\* as it was, and so is every attendance record.
C23_SoftDeleteFlipsFlagOnly ==
    [][\A student_id \in Ids :
          (last'.op = "delete" /\ last'.student_id = student_id
             /\ DeleteStudent(student_id)) =>
             LET before == get_student_by_id(students, student_id)
                 after == get_student_by_id(students', student_id)
             IN
             /\ attendance' = attendance
             /\ Len(students') = Len(students)
             /\ \A j \in 1..Len(students) :
                   students'[j] = IF students[j].student_id = student_id
                                  THEN [students[j] EXCEPT !.is_active = FALSE]
                                  ELSE students[j]
             /\ after.found = before.found
             /\ before.found =>
                   /\ after.student.name = before.student.name
                   /\ after.student.student_id = before.student.student_id
                   /\ after.student.embeddings = before.student.embeddings
                   /\ ~after.student.is_active]_vars

\* an active identity with an attendance record has just been soft-deleted
\* next to another active identity, and is still stored with its embeddings
C23_Witness ==
    /\ last.op = "delete"
    /\ last.res
    /\ Len(students) = 2
    /\ Len(attendance) >= 1
    /\ attendance[1].student_id = last.student_id
    /\ \E i, j \in 1..2 :
          /\ students[i].student_id = last.student_id
          /\ ~students[i].is_active
          /\ Len(students[i].embeddings) > MinEmbeddings
          /\ students[j].is_active

-----------------------------------------------------------------------------
\* Properties of the statistics (SpecStats)

\* C24: every stored identity's image_count is the length of its embedding
\* sequence, also after augmentations handled at the same time, and the
\* statistics report the number of active identities, the number of
\* embeddings stored for them and their quotient, or 0 without active identities.
C24_StatsCountStoredEmbeddings ==
    /\ \A i \in 1..Len(students) : students[i].image_count = Len(students[i].embeddings)
    /\ LET stats == get_system_stats(students) IN
          /\ stats.success
          /\ stats.total_students = Cardinality(ActiveIdx)
          /\ stats.total_embeddings = EmbeddingCount(ActiveIdx)
          /\ stats.average_embeddings_per_student =
                IF ActiveIdx = {} THEN 0
                ELSE (Scale * EmbeddingCount(ActiveIdx)) \div Cardinality(ActiveIdx)

\* statistics taken after two augmentations of one identity were handled at
\* the same time, with another identity soft-deleted
C24_Witness ==
    /\ last.op = "stats"
    /\ last.res = get_system_stats(students)
    /\ Len(students) = 2
    /\ last.res.total_students = 1
    /\ last.res.total_embeddings > MinEmbeddings
    /\ \E c, d \in Calls :
          /\ c # d
          /\ calls[c].pc = "done" /\ calls[d].pc = "done"
          /\ calls[c].res.success /\ calls[d].res.success
          /\ calls[c].student_id = calls[d].student_id
          /\ calls[c].current_embeddings = calls[d].current_embeddings
          /\ \E i \in ActiveIdx : students[i].student_id = calls[c].student_id

-----------------------------------------------------------------------------
\* Properties of the augmentation of a soft-deleted identity (SpecInactive)

\* the identities a verification result names: as student, as best_match or
\* in its ranked list
NamedBy(res) ==
    {res.all_matches[m].student_id : m \in 1..Len(res.all_matches)}
        \cup (IF res.student.is_none THEN {} ELSE {res.student.student_id})
        \cup (IF res.best_match.is_none THEN {} ELSE {res.best_match.student_id})

\* C25: augmenting a soft-deleted identity with an upload from which at least
\* one embedding is extracted succeeds (HTTP 200), appends the extracted
\* embeddings to the stored ones, and leaves the identity inactive and every
\* other document as it was; no verification that follows names the identity.
C25_AugmentKeepsInactive ==
    \A i \in 1..Len(students), image_paths \in AugmentUploads :
        (~students[i].is_active /\ Len(ExpectedEmbeddings(image_paths)) >= 1) =>
            LET student_id == students[i].student_id
                r == improve_recognition(students, student_id, image_paths)
            IN
            /\ r.result.success
            /\ r.result.status = 200
            /\ r.result.added_embeddings = Len(ExpectedEmbeddings(image_paths))
            /\ Len(r.coll) = Len(students)
            /\ DeserializeAll(r.coll[i].embeddings) =
                  DeserializeAll(students[i].embeddings) \o ExpectedEmbeddings(image_paths)
            /\ ~r.coll[i].is_active
            /\ \A j \in 1..Len(students) : j # i => r.coll[j] = students[j]
            /\ \A k \in 1..Len(get_all_embeddings(r.coll)) :
                  get_all_embeddings(r.coll)[k].student_id # student_id
            /\ \A image_path \in ProbeImages :
                  student_id \notin NamedBy(verify_face(r.coll, image_path))

\* a soft-deleted identity has just been augmented next to an active one and
\* is still inactive; were it active, a verification of probe1.jpg would
\* name it
C25_Witness ==
    /\ last.op = "improve"
    /\ last.res.success
    /\ Len(students) = 2
    /\ \E i, j \in 1..2 :
          /\ students[i].student_id = last.student_id
          /\ ~students[i].is_active
          /\ Len(students[i].embeddings) = MinEmbeddings + last.res.added_embeddings
          /\ students[j].is_active
          /\ last.student_id \in
                NamedBy(verify_face([students EXCEPT ![i].is_active = TRUE], "probe1.jpg"))
          /\ last.student_id \notin NamedBy(verify_face(students, "probe1.jpg"))

-----------------------------------------------------------------------------
\* Properties of the temporary files (SpecTempFiles)

\* C26 as claimed: every temporary file created by the /register, /attendance
\* and /improve-recognition handlers is deleted by the time the handler returns
\* or raises, so that no handler leaves a file behind.
C26_TempFilesDeleted == temp_files = {}

====
